---- MODULE Spec2Model ----
(***************************************************************************)
(* Model of cloudinary/api.py: the admin-API parameter builders (one       *)
(* action per public operation) and the request dispatcher call_api.       *)
(*                                                                         *)
(* One behaviour is one invocation of a public operation.  The builder     *)
(* and the first half of call_api (credential resolution, URL and header   *)
(* construction, the call of _http.request) are one step; the second half  *)
(* of call_api (api.py:315-334) is the step taken when _http.request       *)
(* raises or returns.                                                      *)
(*                                                                         *)
(* Python values are modelled as follows: a str is a TLA+ string, or a     *)
(* sequence of string pieces where the code builds it by joining or        *)
(* formatting; None is PyNone; a dict is a function on strings; a list is  *)
(* a sequence; a list of (key, value) tuples is a sequence of pairs.       *)
(***************************************************************************)
EXTENDS Integers, Sequences, FiniteSets, TLC

VARIABLES
    config,     \* cloudinary.config(): the process-wide configuration
    pc,         \* "idle": not called yet; "awaiting": inside _http.request; "done"
    call,       \* the invocation: operation, list argument, caller's options
    request,    \* the arguments of _http.request (api.py:316), in flight
    requests,   \* number of _http.request calls made by the invocation
    response,   \* what _http.request produced: a response or a raised error
    returned,   \* the Response returned to the caller, if any
    raised      \* the exception raised to the caller, if any

vars == <<config, pc, call, request, requests, response, returned, raised>>

-----------------------------------------------------------------------------
(* Bounds of the model. *)

\* Longest public_ids / derived_resource_ids list passed by the caller.
MaxIds == 2
\* Largest number of keyword options passed by the caller.
MaxOptions == 1

-----------------------------------------------------------------------------
(* Python values. *)

PyNone == "<None>"
PyTrue == "<True>"
PyFalse == "<False>"

\* Truth value of a str-or-None, as `not x` / `x or y` test it.
Truthy(v) == v # PyNone /\ v # ""

EmptyDict == [k \in {} |-> ""]

\* dict.pop(key, default) / dict.get(key, default): the value ...
Get(d, key, default) == IF key \in DOMAIN d THEN d[key] ELSE default

\* ... and the dict that options.pop leaves behind.
Without(d, keys) == [k \in DOMAIN d \ keys |-> d[k]]

\* d[key] = value
Put(d, key, value) == [k \in DOMAIN d \cup {key} |-> IF k = key THEN value ELSE d[k]]

\* d.update(e)
Update(d, e) == [k \in DOMAIN d \cup DOMAIN e |-> IF k \in DOMAIN e THEN e[k] ELSE d[k]]

\* list(d.items()), the keys in the order `order` lists them (only() builds
\* its dict in the order of its *keys argument).
RECURSIVE Items(_, _)
Items(d, order) ==
    IF order = <<>> THEN <<>>
    ELSE (IF Head(order) \in DOMAIN d THEN << <<Head(order), d[Head(order)]>> >> ELSE <<>>)
         \o Items(d, Tail(order))

\* sep.join(parts), as the sequence of its pieces
RECURSIVE Join(_, _)
Join(parts, sep) ==
    IF parts = <<>> THEN <<>>
    ELSE IF Len(parts) = 1 THEN <<parts[1]>>
    ELSE <<parts[1], sep>> \o Join(Tail(parts), sep)

Digits == <<"0", "1", "2", "3", "4", "5", "6", "7", "8", "9">>

\* str(n) / "{0}".format(n) / "%d" % n for n >= 0, as the sequence of its digits
RECURSIVE Str(_)
Str(n) == IF n < 10 THEN <<Digits[n + 1]>> ELSE Str(n \div 10) \o <<Digits[(n % 10) + 1]>>

DigitValue(c) == CHOOSE i \in 0..9 : Digits[i + 1] = c

\* int(s) for a string of decimal digits, given as the sequence of its digits
RECURSIVE ParseInt(_)
ParseInt(s) == IF Len(s) = 1 THEN DigitValue(s[1])
               ELSE 10 * ParseInt(SubSeq(s, 1, Len(s) - 1)) + DigitValue(s[Len(s)])

-----------------------------------------------------------------------------
(* Exceptions (api.py:12-29). *)

\* class X(Error): pass
ErrorSubclasses ==
    {"NotFound", "NotAllowed", "AlreadyExists", "RateLimited", "BadRequest",
     "GeneralError", "AuthorizationRequired"}

\* isinstance(exc, Error)
IsError(class) == class = "Error" \/ class \in ErrorSubclasses

\* Faulty variant of EXCEPTION_CODES: the entry for 409 is missing.
EXCEPTION_CODES_no_409 ==
    (400 :> "BadRequest" @@ 401 :> "AuthorizationRequired" @@ 403 :> "NotAllowed"
     @@ 404 :> "NotFound" @@ 420 :> "RateLimited" @@ 500 :> "GeneralError")

EXCEPTION_CODES ==
    (400 :> "BadRequest" @@ 401 :> "AuthorizationRequired" @@ 403 :> "NotAllowed"
     @@ 404 :> "NotFound" @@ 409 :> "AlreadyExists" @@ 420 :> "RateLimited"
     @@ 500 :> "GeneralError")

\* An exception: its class and its args, each arg a sequence of string pieces.
Exc(class, args) == [class |-> class, args |-> args]
NoException == Exc("", <<>>)

-----------------------------------------------------------------------------
(* The caller's inputs. *)

\* Keyword options the caller may pass.  "bogus" is recognised by no operation.
OptionKeys ==
    {"cloud_name", "api_key", "api_secret", "upload_prefix", "timeout", "type",
     "max_results", "tags", "allowed_for_strict", "unsafe_update", "bogus"}

\* A transformation argument: a preformatted str, or a dict describing it.
StrTransformation(s) == [is_str |-> TRUE, str |-> s, dict |-> EmptyDict]
DictTransformation(d) == [is_str |-> FALSE, str |-> "", dict |-> d]

Transformations ==
    {StrTransformation("w_100"), DictTransformation("width" :> "100")}

\* How many values the caller chooses among for an option, and the values.
NumValues(key) ==
    IF key \in {"cloud_name", "api_key", "api_secret", "allowed_for_strict"} THEN 2 ELSE 1

OptionValue(key, i) ==
    CASE key = "cloud_name" -> IF i = 1 THEN "" ELSE "demo2"
      [] key = "api_key" -> IF i = 1 THEN "" ELSE "key2"
      [] key = "api_secret" -> IF i = 1 THEN "" ELSE "secret2"
      [] key = "upload_prefix" -> "https://api.example.test"
      [] key = "timeout" -> "30"
      [] key = "type" -> "private"
      [] key = "max_results" -> "10"
      [] key = "tags" -> <<"t1", "t2">>
      [] key = "allowed_for_strict" -> IF i = 1 THEN PyFalse ELSE PyTrue
      [] key = "unsafe_update" -> StrTransformation("w_200")
      [] key = "bogus" -> "x"

\* Every **options dict of at most MaxOptions keys.
Options ==
    UNION {{[k \in K |-> OptionValue(k, c[k])] :
              c \in {c \in [K -> 1..2] : \A k \in K : c[k] <= NumValues(k)}} :
           K \in {K \in SUBSET OptionKeys : Cardinality(K) <= MaxOptions}}

\* Every list of at most MaxIds public ids.
IdLists == UNION {[1..n -> {"a", "b"}] : n \in 0..MaxIds}

\* cloudinary.config(): each credential is configured or missing.
Configs ==
    [cloud_name : {PyNone, "demo"}, api_key : {PyNone, "key"},
     api_secret : {PyNone, "secret"}, upload_prefix : {PyNone}]

-----------------------------------------------------------------------------
(* What the network and the service may answer. *)

Statuses == {200, 400, 401, 403, 404, 409, 420, 500, 503}

HtmlBody == "<html>Bad Gateway</html>"
ErrorBody == "{\"error\": {\"message\": \"Resource not found\"}}"
OkBody == "{\"resources\": \"none\"}"
Bodies == {HtmlBody, ErrorBody, OkBody}

LimitHeader == "x-featureratelimit-limit"
ResetHeader == "x-featureratelimit-reset"
RemainingHeader == "x-featureratelimit-remaining"

AllHeaders ==
    (LimitHeader :> <<"5", "0", "0">>
     @@ ResetHeader :> "Sun, 01 Nov 2026 12:00:00 GMT"
     @@ RemainingHeader :> <<"4", "9", "9">>)

HeaderDicts == {[h \in H |-> AllHeaders[h]] : H \in SUBSET DOMAIN AllHeaders}

\* What _http.request produced.
NoResponse == [kind |-> "none", status |-> 0, data |-> "", headers |-> EmptyDict, cause |-> ""]
HTTPResponse(status, data, headers) ==
    [kind |-> "response", status |-> status, data |-> data, headers |-> headers, cause |-> ""]
Failure(kind, cause) ==
    [kind |-> kind, status |-> 0, data |-> "", headers |-> EmptyDict, cause |-> cause]

\* Every status with every body, and every combination of missing rate-limit
\* headers (read only by Response.__init__) on the answers with status 200.
Responses ==
    {HTTPResponse(s, b, AllHeaders) : s \in Statuses, b \in Bodies}
    \cup {HTTPResponse(200, b, h) : b \in Bodies, h \in HeaderDicts}

Causes == {"Connection refused"}

-----------------------------------------------------------------------------
(* Helpers of the module (api.py:337-352) and its collaborators. *)

\* Faulty variant of only: every key of the source is kept.
only_all(source, keys) == source

\* only(source, *keys): {key: source[key] for key in keys if key in source}
only(source, keys) == [key \in keys \cap DOMAIN source |-> source[key]]

\* cloudinary.utils.generate_transformation_string(**transformation)[0]
generate_transformation_string(d) ==
    IF d = ("width" :> "100") THEN "w_100" ELSE "w_auto"

transformation_string(transformation) ==
    IF transformation.is_str THEN transformation.str
    ELSE generate_transformation_string(transformation.dict)

\* utils.build_array(arg): a list stays a list
build_array(arg) == arg

\* Faulty variant of Pairs: the pairs come out in reverse order.
RECURSIVE Pairs_reversed(_, _)
Pairs_reversed(name, xs) ==
    IF xs = <<>> THEN <<>>
    ELSE Pairs_reversed(name, Tail(xs)) \o << <<name, Head(xs)>> >>

\* [(name, x) for x in xs]
RECURSIVE Pairs(_, _)
Pairs(name, xs) ==
    IF xs = <<>> THEN <<>> ELSE << <<name, Head(xs)>> >> \o Pairs(name, Tail(xs))

\* The params argument of call_api: a dict, or a list of (key, value) tuples.
DictParams(d) == [is_list |-> FALSE, dict |-> d, list |-> <<>>]
ListParams(l) == [is_list |-> TRUE, dict |-> EmptyDict, list |-> l]

-----------------------------------------------------------------------------
(* State of an invocation. *)

Call(op, ids, options) == [op |-> op, ids |-> ids, options |-> options]
NoCall == Call("", <<>>, EmptyDict)

Request(method, url, fields, basic_auth, timeout) ==
    [method |-> method, url |-> url, fields |-> fields, basic_auth |-> basic_auth,
     timeout |-> timeout]
NoRequest == Request("", <<>>, DictParams(EmptyDict), <<>>, PyNone)

\* class Response(dict): the decoded body and the three rate-limit attributes
ResponseObject(content, allowed, reset_at, remaining) ==
    [present |-> TRUE, content |-> content, rate_limit_allowed |-> allowed,
     rate_limit_reset_at |-> reset_at, rate_limit_remaining |-> remaining]
NoReturn ==
    [present |-> FALSE, content |-> EmptyDict, rate_limit_allowed |-> 0,
     rate_limit_reset_at |-> <<>>, rate_limit_remaining |-> 0]

Init ==
    /\ config \in Configs
    /\ pc = "idle"
    /\ call = NoCall
    /\ request = NoRequest
    /\ requests = 0
    /\ response = NoResponse
    /\ returned = NoReturn
    /\ raised = NoException

-----------------------------------------------------------------------------
(* call_api, up to and including the call of _http.request (api.py:297-316). *)

\* method.upper()
Upper(method) ==
    CASE method \in {"get", "GET"} -> "GET"
      [] method \in {"post", "POST"} -> "POST"
      [] method \in {"put", "PUT"} -> "PUT"
      [] method \in {"delete", "DELETE"} -> "DELETE"

\* "{0}".format(v) of a str or None
Format(v) == IF v = PyNone THEN "None" ELSE v

\* raise exc: the invocation ends, nothing is returned
Raise(exc) ==
    /\ pc' = "done"
    /\ raised' = exc
    /\ returned' = NoReturn

\* The credential checks of api.py:299-304: the exception they raise, if any.
\* The third test reads cloud_name, as the source does.
CredentialError(cloud_name, api_key, api_secret) ==
    IF ~Truthy(cloud_name) THEN Exc("Exception", << <<"Must supply cloud_name">> >>)
    ELSE IF ~Truthy(api_key) THEN Exc("Exception", << <<"Must supply api_key">> >>)
    ELSE IF ~Truthy(cloud_name) THEN Exc("Exception", << <<"Must supply api_secret">> >>)
    ELSE NoException

call_api(method, uri, params, options) ==
    LET prefix_option == Get(options, "upload_prefix", config.upload_prefix)
        prefix == IF Truthy(prefix_option) THEN prefix_option
                  ELSE "https://api.cloudinary.com"
        cloud_name == Get(options, "cloud_name", config.cloud_name)
        api_key == Get(options, "api_key", config.api_key)
        api_secret == Get(options, "api_secret", config.api_secret)
        error == CredentialError(cloud_name, api_key, api_secret)
        api_url == Join(<<prefix, "v1_1", cloud_name>> \o uri, "/")
        basic_auth == <<Format(api_key), ":", Format(api_secret)>>
        timeout == Get(options, "timeout", PyNone)
    IN  IF error # NoException
        THEN /\ Raise(error)
             /\ UNCHANGED <<config, request, requests, response>>
        ELSE /\ request' = Request(Upper(method), api_url, params, basic_auth, timeout)
             /\ requests' = requests + 1
             /\ pc' = "awaiting"
             /\ UNCHANGED <<config, response, returned, raised>>

-----------------------------------------------------------------------------
(* call_api, from the outcome of _http.request on (api.py:315-334).  These  *)
(* lines read only `response` and `body`, so the invocation's arguments and *)
(* the request are not carried past them.                                   *)

\* json.loads(body.decode('utf-8')): the decoded value, or the ValueError
json_loads(body) ==
    CASE body = ErrorBody ->
           [ok |-> TRUE, value |-> ("error" :> ("message" :> "Resource not found")),
            error |-> ""]
      [] body = OkBody ->
           [ok |-> TRUE, value |-> ("resources" :> "none"), error |-> ""]
      [] OTHER ->
           [ok |-> FALSE, value |-> EmptyDict, error |-> "No JSON object could be decoded"]

\* email.utils.parsedate(s): the time tuple, or None
parsedate(s) ==
    IF s = "Sun, 01 Nov 2026 12:00:00 GMT" THEN <<2026, 11, 1, 12, 0, 0, 0, 1, -1>>
    ELSE PyNone

Outcome(ret, exc) == [returned |-> ret, raised |-> exc]

\* Faulty variant of ResponseInit: a missing header reads as "0" / no date
\* (headers.get with a default) instead of raising KeyError.
ResponseInit_defaults(result, resp) ==
    Outcome(ResponseObject(result,
                           ParseInt(Get(resp.headers, LimitHeader, <<"0">>)),
                           parsedate(Get(resp.headers, ResetHeader, "")),
                           ParseInt(Get(resp.headers, RemainingHeader, <<"0">>))),
            NoException)

\* Response.__init__(result, response) (api.py:33-38): response.headers[name]
\* raises KeyError(name) for a header the response does not carry.
ResponseInit(result, resp) ==
    IF LimitHeader \notin DOMAIN resp.headers
    THEN Outcome(NoReturn, Exc("KeyError", << <<LimitHeader>> >>))
    ELSE IF ResetHeader \notin DOMAIN resp.headers
    THEN Outcome(NoReturn, Exc("KeyError", << <<ResetHeader>> >>))
    ELSE IF RemainingHeader \notin DOMAIN resp.headers
    THEN Outcome(NoReturn, Exc("KeyError", << <<RemainingHeader>> >>))
    ELSE Outcome(ResponseObject(result,
                                ParseInt(resp.headers[LimitHeader]),
                                parsedate(resp.headers[ResetHeader]),
                                ParseInt(resp.headers[RemainingHeader])),
                 NoException)

\* Faulty variant of ParseError: the raw body is left out of the message.
ParseError_no_body(resp, e) ==
    Exc("GeneralError",
        << <<"Error parsing server response (">> \o Str(resp.status)
           \o <<"). Got - ", e>> >>)

\* api.py:327
ParseError(resp, e) ==
    Exc("GeneralError",
        << <<"Error parsing server response (">> \o Str(resp.status)
           \o <<") - ", resp.data, ". Got - ", e>> >>)

\* api.py:330-332
ServiceError(status, result) ==
    LET exception_class == IF status \in DOMAIN EXCEPTION_CODES
                           THEN EXCEPTION_CODES[status] ELSE "Exception"
    IN  Exc(exception_class,
            << <<"Error ">> \o Str(status) \o <<" - ", result["error"]["message"]>> >>)

\* api.py:323-334
HandleResponse(resp) ==
    LET parsed == json_loads(resp.data)
    IN  IF ~parsed.ok THEN Outcome(NoReturn, ParseError(resp, parsed.error))
        ELSE IF "error" \in DOMAIN parsed.value
        THEN Outcome(NoReturn, ServiceError(resp.status, parsed.value))
        ELSE ResponseInit(parsed.value, resp)

\* call_api leaves _http.request with `produced` and ends with `outcome`.
Finish(produced, outcome) ==
    /\ pc' = "done"
    /\ response' = produced
    /\ returned' = outcome.returned
    /\ raised' = outcome.raised
    /\ call' = NoCall
    /\ request' = NoRequest
    /\ UNCHANGED <<config, requests>>

\* except HTTPError as e: raise GeneralError("Unexpected error {0}", e.message)
\* (api.py:318-319).  The format string is never formatted: the exception gets
\* two args.  e.message exists on Python 2 (BaseException.message) and not on
\* Python 3, where reading it raises AttributeError out of the handler.
call_api_HTTPError ==
    /\ pc = "awaiting"
    /\ \E cause \in Causes, has_message \in BOOLEAN :
           Finish(Failure("HTTPError", cause),
                  Outcome(NoReturn,
                          IF has_message
                          THEN Exc("GeneralError",
                                   << <<"Unexpected error {0}">>, <<cause>> >>)
                          ELSE Exc("AttributeError",
                                   << <<"'HTTPError' object has no attribute 'message'">> >>)))

\* Faulty variant of call_api_socket_error: the request is sent again instead
\* of raising.
call_api_socket_error_retry ==
    /\ pc = "awaiting"
    /\ requests' = requests + 1
    /\ UNCHANGED <<config, pc, call, request, response, returned, raised>>

\* except socket.error as e: raise GeneralError("Socket Error: %s" % (str(e)))
\* (api.py:320-321)
call_api_socket_error ==
    /\ pc = "awaiting"
    /\ \E cause \in Causes :
           Finish(Failure("socket.error", cause),
                  Outcome(NoReturn, Exc("GeneralError", << <<"Socket Error: ", cause>> >>)))

\* _http.request returned a response (api.py:316-317, 323-334)
call_api_response ==
    /\ pc = "awaiting"
    /\ \E resp \in Responses : Finish(resp, HandleResponse(resp))

-----------------------------------------------------------------------------
(* The public operations (api.py:43-294): each builds its URI and params    *)
(* and ends in call_api.                                                    *)

\* The caller invokes `op`: the invocation is recorded.
Start(op, ids, options) == call' = Call(op, ids, options)

NoParams == DictParams(EmptyDict)

\* options.pop("resource_type", "image")
ResourceType(options) == Get(options, "resource_type", "image")

ping ==
    /\ pc = "idle"
    /\ \E options \in Options :
           /\ Start("ping", <<>>, options)
           /\ call_api("get", <<"ping">>, NoParams, options)

usage ==
    /\ pc = "idle"
    /\ \E options \in Options :
           /\ Start("usage", <<>>, options)
           /\ call_api("get", <<"usage">>, NoParams, options)

resource_types ==
    /\ pc = "idle"
    /\ \E options \in Options :
           /\ Start("resource_types", <<>>, options)
           /\ call_api("get", <<"resources">>, NoParams, options)

resources ==
    /\ pc = "idle"
    /\ \E options \in Options :
           LET upload_type == Get(options, "type", PyNone)
               rest == Without(options, {"resource_type", "type"})
               uri == <<"resources", ResourceType(options)>>
                      \o (IF Truthy(upload_type) THEN <<upload_type>> ELSE <<>>)
               params == only(rest, {"next_cursor", "max_results", "prefix", "tags", "context",
                                     "moderations", "direction", "start_at"})
           IN  /\ Start("resources", <<>>, options)
               /\ call_api("get", uri, DictParams(params), rest)

resources_by_tag ==
    /\ pc = "idle"
    /\ \E options \in Options :
           LET rest == Without(options, {"resource_type"})
               uri == <<"resources", ResourceType(options), "tags", "sale">>
               params == only(rest, {"next_cursor", "max_results", "tags", "context",
                                     "moderations", "direction"})
           IN  /\ Start("resources_by_tag", <<>>, options)
               /\ call_api("get", uri, DictParams(params), rest)

resources_by_moderation ==
    /\ pc = "idle"
    /\ \E options \in Options :
           LET rest == Without(options, {"resource_type"})
               uri == <<"resources", ResourceType(options), "moderations", "manual", "pending">>
               params == only(rest, {"next_cursor", "max_results", "tags", "context",
                                     "moderations", "direction"})
           IN  /\ Start("resources_by_moderation", <<>>, options)
               /\ call_api("get", uri, DictParams(params), rest)

resources_by_ids ==
    /\ pc = "idle"
    /\ \E public_ids \in IdLists, options \in Options :
           LET rest == Without(options, {"resource_type", "type"})
               uri == <<"resources", ResourceType(options), Get(options, "type", "upload")>>
               params == Pairs("public_ids[]", public_ids)
               optional == Items(only(rest, {"tags", "moderations", "context"}),
                                 <<"tags", "moderations", "context">>)
           IN  /\ Start("resources_by_ids", public_ids, options)
               /\ call_api("get", uri, ListParams(params \o optional), rest)

resource ==
    /\ pc = "idle"
    /\ \E options \in Options :
           LET rest == Without(options, {"resource_type", "type"})
               uri == <<"resources", ResourceType(options), Get(options, "type", "upload"),
                        "sample">>
               params == only(rest, {"exif", "faces", "colors", "image_metadata", "pages",
                                     "phash", "coordinates", "max_results"})
           IN  /\ Start("resource", <<>>, options)
               /\ call_api("get", uri, DictParams(params), rest)

\* utils.encode_double_array(array): "|".join(",".join(inner) for inner in array)
RECURSIVE encode_double_array(_)
encode_double_array(array) ==
    IF array = <<>> THEN <<>>
    ELSE IF Len(array) = 1 THEN Join(array[1], ",")
    ELSE Join(array[1], ",") \o <<"|">> \o encode_double_array(Tail(array))

\* utils.encode_dict(arg): "|".join(k + "=" + v for k, v in arg.items())
RECURSIVE encode_dict(_)
encode_dict(arg) ==
    IF DOMAIN arg = {} THEN <<>>
    ELSE LET k == CHOOSE x \in DOMAIN arg : TRUE
             rest == encode_dict(Without(arg, {k}))
         IN  <<k, "=", arg[k]>> \o (IF rest = <<>> THEN <<>> ELSE <<"|">> \o rest)

update ==
    /\ pc = "idle"
    /\ \E options \in Options :
           LET rest == Without(options, {"resource_type", "type"})
               uri == <<"resources", ResourceType(options), Get(options, "type", "upload"),
                        "sample">>
               p0 == only(rest, {"moderation_status", "raw_convert", "ocr", "categorization",
                                 "detection", "similarity_search", "background_removal"})
               p1 == IF "tags" \in DOMAIN rest
                     THEN Put(p0, "tags", Join(build_array(rest["tags"]), ","))
                     ELSE p0
               p2 == IF "face_coordinates" \in DOMAIN rest
                     THEN Put(p1, "face_coordinates", encode_double_array(rest["face_coordinates"]))
                     ELSE p1
               p3 == IF "custom_coordinates" \in DOMAIN rest
                     THEN Put(p2, "custom_coordinates",
                              encode_double_array(rest["custom_coordinates"]))
                     ELSE p2
               p4 == IF "context" \in DOMAIN rest
                     THEN Put(p3, "context", encode_dict(rest["context"]))
                     ELSE p3
               params == IF "auto_tagging" \in DOMAIN rest
                         THEN Put(p4, "auto_tagging", Format(rest["auto_tagging"]))
                         ELSE p4
           IN  /\ Start("update", <<>>, options)
               /\ call_api("post", uri, DictParams(params), rest)

delete_resources ==
    /\ pc = "idle"
    /\ \E public_ids \in IdLists, options \in Options :
           LET rest == Without(options, {"resource_type", "type"})
               uri == <<"resources", ResourceType(options), Get(options, "type", "upload")>>
               params == Pairs("public_ids[]", public_ids)
               optional == Items(only(rest, {"keep_original", "next_cursor", "invalidate"}),
                                 <<"keep_original", "next_cursor", "invalidate">>)
           IN  /\ Start("delete_resources", public_ids, options)
               /\ call_api("delete", uri, ListParams(params \o optional), rest)

delete_resources_by_prefix ==
    /\ pc = "idle"
    /\ \E options \in Options :
           LET rest == Without(options, {"resource_type", "type"})
               uri == <<"resources", ResourceType(options), Get(options, "type", "upload")>>
               params == Put(only(rest, {"keep_original", "next_cursor", "invalidate"}),
                             "prefix", "sam")
           IN  /\ Start("delete_resources_by_prefix", <<>>, options)
               /\ call_api("delete", uri, DictParams(params), rest)

delete_all_resources ==
    /\ pc = "idle"
    /\ \E options \in Options :
           LET rest == Without(options, {"resource_type", "type"})
               uri == <<"resources", ResourceType(options), Get(options, "type", "upload")>>
               params == Put(only(rest, {"keep_original", "next_cursor", "invalidate"}),
                             "all", PyTrue)
           IN  /\ Start("delete_all_resources", <<>>, options)
               /\ call_api("delete", uri, DictParams(params), rest)

delete_resources_by_tag ==
    /\ pc = "idle"
    /\ \E options \in Options :
           LET rest == Without(options, {"resource_type"})
               uri == <<"resources", ResourceType(options), "tags", "sale">>
               params == only(rest, {"keep_original", "next_cursor", "invalidate"})
           IN  /\ Start("delete_resources_by_tag", <<>>, options)
               /\ call_api("delete", uri, DictParams(params), rest)

delete_derived_resources ==
    /\ pc = "idle"
    /\ \E derived_resource_ids \in IdLists, options \in Options :
           LET params == Pairs("derived_resource_ids[]", derived_resource_ids)
           IN  /\ Start("delete_derived_resources", derived_resource_ids, options)
               /\ call_api("delete", <<"derived_resources">>, ListParams(params), options)

tags ==
    /\ pc = "idle"
    /\ \E options \in Options :
           LET rest == Without(options, {"resource_type"})
               uri == <<"tags", ResourceType(options)>>
           IN  /\ Start("tags", <<>>, options)
               /\ call_api("get", uri,
                           DictParams(only(rest, {"next_cursor", "max_results", "prefix"})), rest)

transformations ==
    /\ pc = "idle"
    /\ \E options \in Options :
           /\ Start("transformations", <<>>, options)
           /\ call_api("get", <<"transformations">>,
                       DictParams(only(options, {"next_cursor", "max_results"})), options)

transformation ==
    /\ pc = "idle"
    /\ \E t \in Transformations, options \in Options :
           /\ Start("transformation", <<>>, options)
           /\ call_api("get", <<"transformations", transformation_string(t)>>,
                       DictParams(only(options, {"next_cursor", "max_results"})), options)

delete_transformation ==
    /\ pc = "idle"
    /\ \E t \in Transformations, options \in Options :
           /\ Start("delete_transformation", <<>>, options)
           /\ call_api("delete", <<"transformations", transformation_string(t)>>,
                       NoParams, options)

\* Faulty variant of NoUpdates: tests the values' truth instead of the dict's
\* emptiness, so that allowed_for_strict=False counts as no update.
NoUpdates_falsy_values(updates) == \A k \in DOMAIN updates : updates[k] = PyFalse

\* `if not updates` (api.py:181): an empty dict
NoUpdates(updates) == DOMAIN updates = {}

update_transformation ==
    /\ pc = "idle"
    /\ \E t \in Transformations, options \in Options :
           LET uri == <<"transformations", transformation_string(t)>>
               allowed == only(options, {"allowed_for_strict"})
               updates == IF "unsafe_update" \in DOMAIN options
                          THEN Put(allowed, "unsafe_update",
                                   transformation_string(options["unsafe_update"]))
                          ELSE allowed
           IN  /\ Start("update_transformation", <<>>, options)
               /\ IF NoUpdates(updates)
                  THEN /\ Raise(Exc("Exception", << <<"No updates given">> >>))
                       /\ UNCHANGED <<config, request, requests, response>>
                  ELSE call_api("put", uri, DictParams(updates), options)

create_transformation ==
    /\ pc = "idle"
    /\ \E definition \in Transformations, options \in Options :
           /\ Start("create_transformation", <<>>, options)
           /\ call_api("post", <<"transformations", "thumb">>,
                       DictParams("transformation" :> transformation_string(definition)),
                       options)

upload_presets ==
    /\ pc = "idle"
    /\ \E options \in Options :
           /\ Start("upload_presets", <<>>, options)
           /\ call_api("get", <<"upload_presets">>,
                       DictParams(only(options, {"next_cursor", "max_results"})), options)

upload_preset ==
    /\ pc = "idle"
    /\ \E options \in Options :
           /\ Start("upload_preset", <<>>, options)
           /\ call_api("get", <<"upload_presets", "preset1">>,
                       DictParams(only(options, {"max_results"})), options)

delete_upload_preset ==
    /\ pc = "idle"
    /\ \E options \in Options :
           /\ Start("delete_upload_preset", <<>>, options)
           /\ call_api("delete", <<"upload_presets", "preset1">>, NoParams, options)

\* The upload parameters utils.build_upload_params(**options) reads from the
\* options, among the modelled option keys.
UploadParamKeys == {"type", "tags"}

\* utils.build_upload_params(**options): every upload parameter, None when the
\* option is not given; tags are joined with "," (no tags: no pieces)
build_upload_params(options) ==
    [k \in UploadParamKeys |->
        IF k = "tags"
        THEN (IF k \in DOMAIN options THEN Join(build_array(options[k]), ",") ELSE <<>>)
        ELSE Get(options, k, PyNone)]

\* utils.cleanup_params(params): drops the None and the empty values
cleanup_params(params) ==
    [k \in {k \in DOMAIN params :
              IF k = "tags" THEN params[k] # <<>> ELSE Truthy(params[k])}
        |-> params[k]]

update_upload_preset ==
    /\ pc = "idle"
    /\ \E options \in Options :
           LET built == cleanup_params(build_upload_params(options))
               params == Update(built, only(options, {"unsigned", "disallow_public_id"}))
           IN  /\ Start("update_upload_preset", <<>>, options)
               /\ call_api("put", <<"upload_presets", "preset1">>, DictParams(params), options)

create_upload_preset ==
    /\ pc = "idle"
    /\ \E options \in Options :
           LET built == cleanup_params(build_upload_params(options))
               params == Update(built, only(options, {"unsigned", "disallow_public_id", "name"}))
           IN  /\ Start("create_upload_preset", <<>>, options)
               /\ call_api("post", <<"upload_presets">>, DictParams(params), options)

root_folders ==
    /\ pc = "idle"
    /\ \E options \in Options :
           /\ Start("root_folders", <<>>, options)
           /\ call_api("get", <<"folders">>, NoParams, options)

subfolders ==
    /\ pc = "idle"
    /\ \E options \in Options :
           /\ Start("subfolders", <<>>, options)
           /\ call_api("get", <<"folders", "photos">>, NoParams, options)

restore ==
    /\ pc = "idle"
    /\ \E public_ids \in IdLists, options \in Options :
           LET rest == Without(options, {"resource_type", "type"})
               uri == <<"resources", ResourceType(options), Get(options, "type", "upload"),
                        "restore">>
           IN  /\ Start("restore", public_ids, options)
               /\ call_api("post", uri, ListParams(Pairs("public_ids[]", public_ids)), rest)

upload_mappings ==
    /\ pc = "idle"
    /\ \E options \in Options :
           /\ Start("upload_mappings", <<>>, options)
           /\ call_api("get", <<"upload_mappings">>,
                       DictParams(only(options, {"next_cursor", "max_results"})), options)

upload_mapping ==
    /\ pc = "idle"
    /\ \E options \in Options :
           /\ Start("upload_mapping", <<>>, options)
           /\ call_api("get", <<"upload_mappings">>, DictParams("folder" :> "wiki"), options)

delete_upload_mapping ==
    /\ pc = "idle"
    /\ \E options \in Options :
           /\ Start("delete_upload_mapping", <<>>, options)
           /\ call_api("delete", <<"upload_mappings">>, DictParams("folder" :> "wiki"), options)

update_upload_mapping ==
    /\ pc = "idle"
    /\ \E options \in Options :
           /\ Start("update_upload_mapping", <<>>, options)
           /\ call_api("put", <<"upload_mappings">>,
                       DictParams(Update("folder" :> "wiki", only(options, {"template"}))),
                       options)

create_upload_mapping ==
    /\ pc = "idle"
    /\ \E options \in Options :
           /\ Start("create_upload_mapping", <<>>, options)
           /\ call_api("post", <<"upload_mappings">>,
                       DictParams(Update("folder" :> "wiki", only(options, {"template"}))),
                       options)

list_streaming_profiles ==
    /\ pc = "idle"
    /\ \E options \in Options :
           /\ Start("list_streaming_profiles", <<>>, options)
           /\ call_api("GET", <<"streaming_profiles">>, NoParams, options)

get_streaming_profile ==
    /\ pc = "idle"
    /\ \E options \in Options :
           /\ Start("get_streaming_profile", <<>>, options)
           /\ call_api("GET", <<"streaming_profiles", "hd">>, NoParams, options)

delete_streaming_profile ==
    /\ pc = "idle"
    /\ \E options \in Options :
           /\ Start("delete_streaming_profile", <<>>, options)
           /\ call_api("DELETE", <<"streaming_profiles", "hd">>, NoParams, options)

\* json.dumps([{"transformation": s} for s in strings]), as its pieces
RECURSIVE json_dumps(_)
json_dumps(strings) ==
    LET item(x) == <<"{\"transformation\": \"", x, "\"}">>
        RECURSIVE items(_)
        items(xs) == IF xs = <<>> THEN <<>>
                     ELSE IF Len(xs) = 1 THEN item(xs[1])
                     ELSE item(xs[1]) \o <<", ">> \o items(Tail(xs))
    IN  <<"[">> \o items(strings) \o <<"]">>

\* __prepare_streaming_profile_params(**options) (api.py:348-352)
prepare_streaming_profile_params(options) ==
    LET params == only(options, {"display_name"})
    IN  IF "representations" \in DOMAIN options
        THEN Put(params, "representations",
                 json_dumps([i \in DOMAIN options["representations"] |->
                               transformation_string(options["representations"][i])]))
        ELSE params

create_streaming_profile ==
    /\ pc = "idle"
    /\ \E options \in Options :
           /\ Start("create_streaming_profile", <<>>, options)
           /\ call_api("POST", <<"streaming_profiles">>,
                       DictParams(Put(prepare_streaming_profile_params(options), "name", "hd")),
                       options)

update_streaming_profile ==
    /\ pc = "idle"
    /\ \E options \in Options :
           /\ Start("update_streaming_profile", <<>>, options)
           /\ call_api("PUT", <<"streaming_profiles", "hd">>,
                       DictParams(prepare_streaming_profile_params(options)), options)

-----------------------------------------------------------------------------

Next ==
    \/ ping
    \/ usage
    \/ resource_types
    \/ resources
    \/ resources_by_tag
    \/ resources_by_moderation
    \/ resources_by_ids
    \/ resource
    \/ update
    \/ delete_resources
    \/ delete_resources_by_prefix
    \/ delete_all_resources
    \/ delete_resources_by_tag
    \/ delete_derived_resources
    \/ tags
    \/ transformations
    \/ transformation
    \/ delete_transformation
    \/ update_transformation
    \/ create_transformation
    \/ upload_presets
    \/ upload_preset
    \/ delete_upload_preset
    \/ update_upload_preset
    \/ create_upload_preset
    \/ root_folders
    \/ subfolders
    \/ restore
    \/ upload_mappings
    \/ upload_mapping
    \/ delete_upload_mapping
    \/ update_upload_mapping
    \/ create_upload_mapping
    \/ list_streaming_profiles
    \/ get_streaming_profile
    \/ delete_streaming_profile
    \/ create_streaming_profile
    \/ update_streaming_profile
    \/ call_api_HTTPError
    \/ call_api_socket_error
    \/ call_api_response

Spec == Init /\ [][Next]_vars

-----------------------------------------------------------------------------
(* Properties. *)

\* The keys of the params handed to call_api.
ParamKeys(params) ==
    IF params.is_list THEN {params.list[i][1] : i \in DOMAIN params.list}
    ELSE DOMAIN params.dict

\* The values transmitted under `name`, in order of transmission.
RECURSIVE ValuesOf(_, _)
ValuesOf(pairs, name) ==
    IF pairs = <<>> THEN <<>>
    ELSE (IF Head(pairs)[1] = name THEN <<Head(pairs)[2]>> ELSE <<>>)
         \o ValuesOf(Tail(pairs), name)

NamedValues(params, name) ==
    IF params.is_list THEN ValuesOf(params.list, name)
    ELSE IF name \in DOMAIN params.dict THEN <<params.dict[name]>> ELSE <<>>

Credentials == {"cloud_name", "api_key", "api_secret"}

\* The credential is absent or empty in the options and in the configuration.
Missing(credential) ==
    /\ ~Truthy(config[credential])
    /\ credential \notin DOMAIN call.options \/ ~Truthy(call.options[credential])

MustSupply ==
    {<< <<"Must supply cloud_name">> >>, << <<"Must supply api_key">> >>,
     << <<"Must supply api_secret">> >>}

NoUpdatesGiven == Exc("Exception", << <<"No updates given">> >>)

\* The invocation got as far as call_api.
ReachedCallApi == call.op # "" /\ raised # NoUpdatesGiven

\* The decimal digits of the statuses, written out.
StatusDigits ==
    (200 :> <<"2", "0", "0">> @@ 400 :> <<"4", "0", "0">> @@ 401 :> <<"4", "0", "1">>
     @@ 403 :> <<"4", "0", "3">> @@ 404 :> <<"4", "0", "4">> @@ 409 :> <<"4", "0", "9">>
     @@ 420 :> <<"4", "2", "0">> @@ 500 :> <<"5", "0", "0">> @@ 503 :> <<"5", "0", "3">>)

\* call_api has handled an HTTP response whose body decodes to a dict ...
Decoded == json_loads(response.data)
HandledJson == pc = "done" /\ response.kind = "response" /\ Decoded.ok
\* ... that carries an "error" key.
HandledServiceError == HandledJson /\ "error" \in DOMAIN Decoded.value

(* C1: a call_api invocation in which cloud_name, api_key or api_secret is  *)
(* missing (absent or empty in the options and in the configuration)        *)
(* raises a configuration error and issues no HTTP request, for each of the *)
(* three credentials, api_secret alone included.                            *)
C1_MissingCredentialRaises ==
    (ReachedCallApi /\ \E c \in Credentials : Missing(c))
        => /\ pc = "done"
           /\ raised.class = "Exception"
           /\ raised.args \in MustSupply
           /\ requests = 0
           /\ request = NoRequest

\* The exception class of each mapped status, written out.
C2_Subtype ==
    (400 :> "BadRequest" @@ 401 :> "AuthorizationRequired" @@ 403 :> "NotAllowed"
     @@ 404 :> "NotFound" @@ 409 :> "AlreadyExists" @@ 420 :> "RateLimited"
     @@ 500 :> "GeneralError")

(* C2: when the decoded body has an "error" key and the status is one of    *)
(* 400, 401, 403, 404, 409, 420, 500, call_api raises exactly the subtype   *)
(* mapped to the status, with the message "Error <status> - <service        *)
(* message>", and returns no Response.                                      *)
C2_MappedStatusRaisesSubtype ==
    (HandledServiceError /\ response.status \in DOMAIN C2_Subtype)
        => /\ raised.class = C2_Subtype[response.status]
           /\ raised.args = << <<"Error ">> \o StatusDigits[response.status]
                               \o <<" - ", "Resource not found">> >>
           /\ ~returned.present

C2_Witness ==
    /\ HandledServiceError
    /\ response.status = 409
    /\ raised.class = "AlreadyExists"

(* C3: when the decoded body has an "error" key, whatever the status,       *)
(* mapped or not, the exception raised is an instance of the module's base  *)
(* error type Error.                                                        *)
C3_ServiceErrorIsError == HandledServiceError => IsError(raised.class)

(* C4: when the body is valid JSON without an "error" key, call_api returns *)
(* a Response holding the decoded body and the three parsed rate-limit      *)
(* values if all three rate-limit headers are present, and raises, without  *)
(* returning a Response, if any of them is absent.                          *)
C4_ResponseOrMissingHeader ==
    (HandledJson /\ "error" \notin DOMAIN Decoded.value)
        => IF {LimitHeader, ResetHeader, RemainingHeader} \subseteq DOMAIN response.headers
           THEN /\ raised = NoException
                /\ returned.present
                /\ returned.content = ("resources" :> "none")
                /\ returned.rate_limit_allowed = 500
                /\ returned.rate_limit_reset_at = <<2026, 11, 1, 12, 0, 0, 0, 1, -1>>
                /\ returned.rate_limit_remaining = 499
           ELSE /\ ~returned.present
                /\ raised.class = "KeyError"

C4_Witness ==
    /\ HandledJson
    /\ response.data = OkBody
    /\ DOMAIN response.headers = {LimitHeader, ResetHeader, RemainingHeader}
    /\ returned.present
    /\ returned.rate_limit_remaining = 499

\* The update keys among the caller's options.
C5_Given == {"allowed_for_strict", "unsafe_update"} \cap DOMAIN call.options

(* C5: update_transformation with neither allowed_for_strict nor            *)
(* unsafe_update in its options raises a client-side error without reaching *)
(* call_api (no HTTP request); with either key present, the value False of  *)
(* allowed_for_strict included, the update set is not empty and is          *)
(* dispatched to call_api as a PUT.                                         *)
C5_NoOpUpdateRaises ==
    call.op = "update_transformation"
        => IF C5_Given = {}
           THEN /\ pc = "done"
                /\ raised = NoUpdatesGiven
                /\ ~returned.present
                /\ requests = 0
                /\ request = NoRequest
           ELSE /\ raised # NoUpdatesGiven
                /\ \/ /\ pc = "awaiting"
                      /\ requests = 1
                      /\ request.method = "PUT"
                      /\ ~request.fields.is_list
                      /\ DOMAIN request.fields.dict = C5_Given
                   \/ /\ pc = "done"
                      /\ raised.args \in MustSupply
                      /\ requests = 0

C5_Witness ==
    /\ call.op = "update_transformation"
    /\ "bogus" \in DOMAIN call.options
    /\ raised = NoUpdatesGiven
    /\ requests = 0

\* call_api has handled an HTTP response whose body json.loads rejects.
C6_Handled == pc = "done" /\ response.kind = "response" /\ ~Decoded.ok

(* C6: when the response body is not valid JSON, call_api raises            *)
(* GeneralError with a message containing the HTTP status and the raw body, *)
(* whatever the status; neither the "error"-key dispatch nor the Response   *)
(* construction is reached.                                                 *)
C6_NonJsonRaisesGeneralError ==
    C6_Handled
        => /\ raised.class = "GeneralError"
           /\ Len(raised.args) = 1
           /\ \E i \in 1..(Len(raised.args[1]) - 2) :
                 SubSeq(raised.args[1], i, i + 2) = StatusDigits[response.status]
           /\ \E i \in DOMAIN raised.args[1] : raised.args[1][i] = response.data
           /\ raised.args[1][1] = "Error parsing server response ("
           /\ ~returned.present

C6_Witness ==
    /\ C6_Handled
    /\ response.status = 200
    /\ response.data = HtmlBody
    /\ raised.class = "GeneralError"

(* C7: a transport-level failure of the HTTP request, urllib3's HTTPError   *)
(* or socket.error, makes call_api raise GeneralError with a message that   *)
(* includes the underlying cause.                                           *)
C7_TransportFailureRaisesGeneralError ==
    (pc = "done" /\ response.kind \in {"HTTPError", "socket.error"})
        => /\ raised.class = "GeneralError"
           /\ \E i \in DOMAIN raised.args :
                 \E j \in DOMAIN raised.args[i] : raised.args[i][j] = response.cause

\* At most one request; a finished invocation has exactly one outcome.
C8_Outcome ==
    /\ requests <= 1
    /\ pc = "done" => (returned.present /\ raised = NoException)
                      \/ (~returned.present /\ raised # NoException)
    /\ pc # "done" => ~returned.present /\ raised = NoException
    /\ pc = "awaiting" => requests = 1
    /\ returned.present => requests = 1

(* C8: an invocation issues at most one HTTP request and ends in exactly    *)
(* one of two outcomes, a returned Response or a raised exception; once it  *)
(* has failed, no further request is issued and no Response is produced.    *)
C8_OneRequestOneOutcome ==
    /\ []C8_Outcome
    /\ [][pc # "done" /\ requests' <= 1 /\ (pc' = "awaiting" => pc = "idle")]_vars

C8_Witness ==
    /\ pc = "done"
    /\ response.kind = "socket.error"
    /\ raised.class = "GeneralError"
    /\ requests = 1

\* The keys each operation may hand to call_api: its only() whitelist, the
\* keys it encodes explicitly and its fixed keys.
C9_Paging == {"next_cursor", "max_results"}
C9_Listing == C9_Paging \cup {"tags", "context", "moderations", "direction"}
C9_Deleting == {"keep_original", "next_cursor", "invalidate"}

C9_Allowed(op) ==
    CASE op = "resources" -> C9_Listing \cup {"prefix", "start_at"}
      [] op \in {"resources_by_tag", "resources_by_moderation"} -> C9_Listing
      [] op = "resources_by_ids" -> {"public_ids[]", "tags", "moderations", "context"}
      [] op = "resource" ->
           {"exif", "faces", "colors", "image_metadata", "pages", "phash", "coordinates",
            "max_results"}
      [] op = "update" ->
           {"moderation_status", "raw_convert", "ocr", "categorization", "detection",
            "similarity_search", "background_removal", "tags", "face_coordinates",
            "custom_coordinates", "context", "auto_tagging"}
      [] op = "delete_resources" -> C9_Deleting \cup {"public_ids[]"}
      [] op = "delete_resources_by_prefix" -> C9_Deleting \cup {"prefix"}
      [] op = "delete_all_resources" -> C9_Deleting \cup {"all"}
      [] op = "delete_resources_by_tag" -> C9_Deleting
      [] op = "delete_derived_resources" -> {"derived_resource_ids[]"}
      [] op = "tags" -> C9_Paging \cup {"prefix"}
      [] op \in {"transformations", "transformation", "upload_presets", "upload_mappings"}
           -> C9_Paging
      [] op = "update_transformation" -> {"allowed_for_strict", "unsafe_update"}
      [] op = "create_transformation" -> {"transformation"}
      [] op = "upload_preset" -> {"max_results"}
      [] op = "update_upload_preset" -> {"unsigned", "disallow_public_id"} \cup UploadParamKeys
      [] op = "create_upload_preset" ->
           {"unsigned", "disallow_public_id", "name"} \cup UploadParamKeys
      [] op = "restore" -> {"public_ids[]"}
      [] op \in {"upload_mapping", "delete_upload_mapping"} -> {"folder"}
      [] op \in {"update_upload_mapping", "create_upload_mapping"} -> {"folder", "template"}
      [] op = "create_streaming_profile" -> {"display_name", "representations", "name"}
      [] op = "update_streaming_profile" -> {"display_name", "representations"}
      [] OTHER -> {}

(* C9: an option whose key is not in the operation's whitelist, and is not  *)
(* a key the operation encodes explicitly, never appears in the params      *)
(* passed to call_api: the keys transmitted are among the operation's       *)
(* whitelist, its explicitly encoded keys and its fixed keys.               *)
C9_OnlyWhitelistedKeysSent ==
    pc = "awaiting"
        => /\ ParamKeys(request.fields) \subseteq C9_Allowed(call.op)
           /\ \A key \in DOMAIN call.options :
                 key \notin C9_Allowed(call.op) => key \notin ParamKeys(request.fields)

C9_Witness ==
    /\ pc = "awaiting"
    /\ call.op = "resources"
    /\ "bogus" \in DOMAIN call.options
    /\ "bogus" \notin ParamKeys(request.fields)

\* The id list is sent as one `name[]` pair per element, in input order.
C10_IdsSent ==
    /\ call.op \in {"resources_by_ids", "delete_resources", "restore"}
         => NamedValues(request.fields, "public_ids[]") = call.ids
    /\ call.op = "delete_derived_resources"
         => NamedValues(request.fields, "derived_resource_ids[]") = call.ids

(* C10, as stated: every list-valued parameter, tags included, is sent as   *)
(* one `name[]` pair per element of the input list, in input order.         *)
C10_ListsSentAsRepeatedKeys ==
    pc = "awaiting"
        => /\ C10_IdsSent
           /\ (call.op = "update" /\ "tags" \in DOMAIN call.options)
                => NamedValues(request.fields, "tags[]") = call.options["tags"]

\* `sent` is the elements of `given` joined by ",".
C10_TagsJoined(sent, given) ==
    /\ Len(sent) = 2 * Len(given) - 1
    /\ \A i \in DOMAIN given : sent[2 * i - 1] = given[i]
    /\ \A i \in 1..(Len(given) - 1) : sent[2 * i] = ","

(* C10, amended: public_ids (resources_by_ids, delete_resources, restore)   *)
(* and derived_resource_ids (delete_derived_resources) are sent as one      *)
(* `name[]` pair per element of the input list, in input order; the tags of *)
(* update are sent as a single `tags` parameter, the elements joined by     *)
(* "," in input order.                                                      *)
C10_IdsRepeatedTagsJoined ==
    pc = "awaiting"
        => /\ C10_IdsSent
           /\ (call.op = "update" /\ "tags" \in DOMAIN call.options)
                => /\ "tags[]" \notin ParamKeys(request.fields)
                   /\ "tags" \in ParamKeys(request.fields)
                   /\ C10_TagsJoined(request.fields.dict["tags"], call.options["tags"])

C10_Witness ==
    /\ pc = "awaiting"
    /\ call.op = "resources_by_ids"
    /\ call.ids = <<"b", "a">>
    /\ request.fields.is_list
    /\ request.fields.list = << <<"public_ids[]", "b">>, <<"public_ids[]", "a">> >>

====
